---- MODULE Spec2Model ----
(***************************************************************************)
(* Job lifecycle of the YouTube downloader GUI (src/ytdl_gui.pyw):         *)
(* the UI thread (button handlers, the 100 ms log poll, modal message      *)
(* boxes) and the worker threads running YtDlGUI._do_download.             *)
(*                                                                         *)
(* Text is modelled as a sequence of one-character strings, so that        *)
(* str.strip() and os.path.join() are computed, not assumed.               *)
(*                                                                         *)
(* A handler of the UI thread is one step: it runs to its return (or to    *)
(* the modal box it opens) before the event loop serves anything else, and *)
(* a widget call made by a worker thread is carried out by the event loop  *)
(* between handlers.  Each statement of the worker's finally block is a    *)
(* step of its own.                                                        *)
(***************************************************************************)
EXTENDS Integers, Sequences, FiniteSets, TLC

\* ---------------------------------------------------------------- bounds
\* Worker threads ever started (accepted submissions).
MaxJobs == 2
\* Progress-hook events the external tool reports per job.
MaxProgress == 1
\* Edits of the two entries, toggle clicks and cancel clicks.
MaxInputs == 2

Workers == 1..MaxJobs
\* Owner of a message box opened by the UI thread itself.
UiThread == 0

\* ------------------------------------------------------------ input sets
\* Texts the user can have in the URL entry.
Urls == { <<" ">>, <<" ", "u">> }
\* Texts the user can have in the destination entry.
Dirs == { <<" ">>, <<"x">> }
\* Directories that exist on the filesystem (os.path.isdir).
ExistingDirs == { <<"d">> }
\* Path.home() / "Downloads"
DefaultDl == <<"d">>
\* Metadata the extraction tool can return (a key may be missing).
Infos == { [title |-> <<>>, id |-> <<"i">>] }
\* Exception texts the extraction tool can raise with.
Errors == { <<"E">> }

NoOpts == [format |-> <<>>, outtmpl |-> <<>>, post |-> <<>>]
NoInfo == [title |-> <<>>, id |-> <<>>]
NoArgs == [url |-> <<>>, save_dir |-> <<>>, as_mp3 |-> FALSE]

VARIABLES
    url_var,         \* tk.StringVar of the URL entry
    save_dir_var,    \* tk.StringVar of the destination entry
    as_mp3_var,      \* tk.BooleanVar of the toggle (TRUE = MP3)
    log_queue,       \* queue.Queue of log lines
    log_text,        \* lines of the visible log (tk.Text)
    is_downloading,  \* the job-state flag
    worker_thread,   \* number of the thread last started (0 = None)
    run_btn,         \* state of the start button
    cancel_btn,      \* state of the cancel button
    msgboxes,        \* stack of open modal message boxes
    pc,              \* position of each worker thread in _do_download
    args,            \* (url, save_dir, as_mp3) each thread was started with
    ydl_opts,        \* options each thread built for the extraction tool
    info,            \* metadata extract_info returned to each thread
    err,             \* exception text caught by each thread
    progress,        \* progress events reported to each thread so far
    have_yt_dlp,     \* environment: yt_dlp can be imported
    have_ffmpeg,     \* environment: ffmpeg is on PATH
    inputs,          \* entry changes, toggle and cancel clicks so far
    run_ignored,     \* history: the last call of _on_run_clicked returned at once
    enqueued,        \* history: every line ever put on log_queue, in order
    extract_calls    \* history: calls of extract_info by each thread

vars == << url_var, save_dir_var, as_mp3_var, log_queue, log_text, is_downloading,
           worker_thread, run_btn, cancel_btn, msgboxes, pc, args,
           ydl_opts, info, err, progress, have_yt_dlp, have_ffmpeg, inputs,
           enqueued, extract_calls, run_ignored >>

fieldVars == << url_var, save_dir_var, as_mp3_var >>
envVars == << have_yt_dlp, have_ffmpeg >>
btnVars == << run_btn, cancel_btn >>
logVars == << log_queue, log_text, enqueued >>
workerVars == << pc, args, ydl_opts, info, err, progress, extract_calls >>

\* ------------------------------------------------------- pure functions
RECURSIVE LStrip(_)
LStrip(s) == IF s # <<>> /\ Head(s) = " " THEN LStrip(Tail(s)) ELSE s

RECURSIVE RStrip(_)
RStrip(s) ==
    IF s # <<>> /\ s[Len(s)] = " " THEN RStrip(SubSeq(s, 1, Len(s) - 1)) ELSE s

\* Mutant of Strip: the text is used as typed.
Strip_None(s) == s

\* str.strip()
Strip(s) == RStrip(LStrip(s))

\* os.path.isdir
IsDir(d) == d \in ExistingDirs

\* os.path.join(a, b) for a relative b
PathJoin(a, b) ==
    IF a = <<>> THEN b
    ELSE IF a[Len(a)] = "/" THEN a \o b
    ELSE a \o <<"/">> \o b

\* dict.get(key, default)
GetOr(v, default) == IF v = <<>> THEN default ELSE v

\* Mutant of Ext: the extension is always that of the audio format.
Ext_AlwaysMp3(as_mp3) == <<"m", "p", "3">>

\* ("mp3" if as_mp3 else "mp4")
Ext(as_mp3) == IF as_mp3 THEN <<"m", "p", "3">> ELSE <<"m", "p", "4">>

\* The options dictionary of _do_download, as far as the job request decides it.
YdlOpts(save_dir, as_mp3) ==
    [ outtmpl |-> PathJoin(save_dir, <<"%(title)s [%(id)s].%(ext)s">>),
      format  |-> IF as_mp3 THEN <<"bestaudio/best">>
                  ELSE <<"bestvideo[ext=mp4]+bestaudio[ext=m4a]/best[ext=mp4]/best">>,
      post    |-> IF as_mp3 THEN <<"FFmpegExtractAudio", "mp3", "192">>
                  ELSE <<"merge_output_format", "mp4">> ]

\* saved_path of _do_download
SavedPath(save_dir, i, as_mp3) ==
    PathJoin(save_dir,
             GetOr(i.title, <<"download">>) \o <<" ", "[">> \o GetOr(i.id, <<"id">>)
                \o <<"]", ".">> \o Ext(as_mp3))

\* ------------------------------------------------------------ log lines
Line(tag, arg) == [tag |-> tag, arg |-> arg]
ReadyLine == Line("ready", <<>>)
ToggleLine(as_mp3) == Line("toggle", IF as_mp3 THEN <<"MP3">> ELSE <<"MP4">>)
StartLine == Line("start", <<>>)
CancelLine == Line("cancel", <<>>)
ProgressLine == Line("progress", <<>>)
StageLine == Line("stage", <<>>)
DoneLine(path) == Line("done", path)
DoneOtherNameLine == Line("done-other-name", <<>>)
ErrorLine(e) == Line("error", e)
IdleLine == Line("idle", <<>>)

\* queue.Queue.put
QueuePut(q, line) == Append(q, line)
\* Mutant of QueueFront: the newest line is taken first.
QueueFront_Newest(q) == q[Len(q)]

\* queue.Queue.get_nowait on a non-empty queue: the line taken, the queue left
QueueFront(q) == Head(q)
QueueRest(q) == Tail(q)

\* YtDlGUI._log, with the history of what was enqueued
Log(line) ==
    /\ log_queue' = QueuePut(log_queue, line)
    /\ enqueued' = Append(enqueued, line)
    /\ UNCHANGED log_text

\* ---------------------------------------------------------- message boxes
Box(owner, kind, text) == [owner |-> owner, kind |-> kind, text |-> text]
WarnUrl == <<"URL required">>
WarnDir == <<"folder required">>
ErrYtDlp == <<"yt-dlp not found">>
ErrFfmpeg == <<"ffmpeg not found">>

\* The main window takes clicks and keys: no modal box is open.
UiReady == msgboxes = <<>>

\* ------------------------------------------------------------------ Init
\* The state after YtDlGUI.__init__: the ready line was put by _build_widgets
\* and rendered by the first _poll_log_queue.
Init ==
    /\ url_var = <<>>
    /\ save_dir_var = IF IsDir(DefaultDl) THEN DefaultDl ELSE <<>>
    /\ as_mp3_var = TRUE
    /\ log_queue = <<>>
    /\ enqueued = << ReadyLine >>
    /\ log_text = << ReadyLine >>
    /\ is_downloading = FALSE
    /\ worker_thread = 0
    /\ run_btn = "normal"
    /\ cancel_btn = "disabled"
    /\ msgboxes = <<>>
    /\ pc = [w \in Workers |-> "unborn"]
    /\ args = [w \in Workers |-> NoArgs]
    /\ ydl_opts = [w \in Workers |-> NoOpts]
    /\ info = [w \in Workers |-> NoInfo]
    /\ err = [w \in Workers |-> <<>>]
    /\ progress = [w \in Workers |-> 0]
    /\ have_yt_dlp \in BOOLEAN
    /\ have_ffmpeg \in BOOLEAN
    /\ inputs = 0
    /\ extract_calls = [w \in Workers |-> 0]
    /\ run_ignored = FALSE

\* ------------------------------------------------------------ UI thread
\* Typing or pasting into the URL entry.
EditUrl ==
    /\ UiReady
    /\ inputs < MaxInputs
    /\ inputs' = inputs + 1
    /\ \E u \in Urls : url_var' = u
    /\ UNCHANGED << save_dir_var, as_mp3_var, is_downloading, worker_thread, btnVars,
                    msgboxes, logVars, workerVars, envVars, run_ignored >>

\* Typing into the destination entry, or picking a folder.
EditDir ==
    /\ UiReady
    /\ inputs < MaxInputs
    /\ inputs' = inputs + 1
    /\ \E d \in Dirs : save_dir_var' = d
    /\ UNCHANGED << url_var, as_mp3_var, is_downloading, worker_thread, btnVars,
                    msgboxes, logVars, workerVars, envVars, run_ignored >>

\* ToggleSwitch._toggle, whose command is _on_toggle_changed.
Toggle ==
    /\ UiReady
    /\ inputs < MaxInputs
    /\ inputs' = inputs + 1
    /\ as_mp3_var' = ~as_mp3_var
    /\ Log(ToggleLine(as_mp3_var'))
    /\ UNCHANGED << url_var, save_dir_var, is_downloading, worker_thread, btnVars,
                    msgboxes, workerVars, envVars, run_ignored >>

\* messagebox.show*: opens a modal box; the caller waits until it is dismissed.
ShowBox(owner, kind, text) == msgboxes' = Append(msgboxes, Box(owner, kind, text))

\* A rejected submission: the box is shown and the handler returns.
Reject(kind, text) ==
    /\ ShowBox(UiThread, kind, text)
    /\ run_ignored' = FALSE
    /\ UNCHANGED << fieldVars, is_downloading, worker_thread, btnVars, logVars,
                    workerVars, envVars, inputs >>

\* threading.Thread(target=self._do_download, args=...).start()
StartThread(url, save_dir, as_mp3) ==
    LET w == worker_thread + 1 IN
    /\ worker_thread < MaxJobs
    /\ worker_thread' = w
    /\ pc' = [pc EXCEPT ![w] = "start"]
    /\ args' = [args EXCEPT ![w] = [url |-> url, save_dir |-> save_dir, as_mp3 |-> as_mp3]]
    /\ UNCHANGED << ydl_opts, info, err, progress, extract_calls >>

\* Mutant of Accept: the thread is started without setting the flag.
Accept_NoFlag(url, save_dir) ==
    /\ run_btn' = "disabled"
    /\ cancel_btn' = "normal"
    /\ Log(StartLine)
    /\ StartThread(url, save_dir, as_mp3_var)
    /\ run_ignored' = FALSE
    /\ UNCHANGED << fieldVars, is_downloading, msgboxes, envVars, inputs >>

\* _on_run_clicked, the accepted submission: the state becomes RUNNING and
\* the thread is started with the request.
Accept(url, save_dir) ==
    /\ is_downloading' = TRUE
    /\ run_btn' = "disabled"
    /\ cancel_btn' = "normal"
    /\ Log(StartLine)
    /\ StartThread(url, save_dir, as_mp3_var)
    /\ run_ignored' = FALSE
    /\ UNCHANGED << fieldVars, msgboxes, envVars, inputs >>

\* Mutant of CheckDependencies: ffmpeg is required for MP3 only.
CheckDependencies_AudioOnly(url, save_dir) ==
    IF ~have_yt_dlp THEN Reject("error", ErrYtDlp)
    ELSE IF as_mp3_var /\ ~have_ffmpeg THEN Reject("error", ErrFfmpeg)
    ELSE Accept(url, save_dir)

\* _on_run_clicked, the dependency check made at each submission.
CheckDependencies(url, save_dir) ==
    IF ~have_yt_dlp THEN Reject("error", ErrYtDlp)
    ELSE IF ~have_ffmpeg THEN Reject("error", ErrFfmpeg)
    ELSE Accept(url, save_dir)

\* _on_run_clicked, the validation of the two entries.
Validate ==
    LET url == Strip(url_var)
        save_dir == Strip(save_dir_var)
    IN
    IF url = <<>> THEN Reject("warning", WarnUrl)
    ELSE IF save_dir = <<>> \/ ~IsDir(save_dir) THEN Reject("warning", WarnDir)
    ELSE CheckDependencies(url, save_dir)

\* Mutant of OnRunClicked: the flag is not looked at.
OnRunClicked_NoGuard == Validate

\* YtDlGUI._on_run_clicked
OnRunClicked ==
    IF is_downloading THEN
        /\ run_ignored' = TRUE
        /\ UNCHANGED << fieldVars, is_downloading, worker_thread, btnVars, msgboxes,
                        logVars, workerVars, envVars, inputs >>
    ELSE Validate

\* Mutant of OnCancelClicked: cancelling also restores the idle buttons.
OnCancelClicked_ResetsButtons ==
    /\ inputs < MaxInputs
    /\ inputs' = inputs + 1
    /\ Log(CancelLine)
    /\ is_downloading' = FALSE
    /\ run_btn' = "normal"
    /\ cancel_btn' = "disabled"
    /\ UNCHANGED << fieldVars, worker_thread, msgboxes, workerVars, envVars,
                    run_ignored >>

\* YtDlGUI._on_cancel_clicked
OnCancelClicked ==
    /\ inputs < MaxInputs
    /\ inputs' = inputs + 1
    /\ Log(CancelLine)
    /\ is_downloading' = FALSE
    /\ UNCHANGED << fieldVars, worker_thread, btnVars, msgboxes, workerVars, envVars,
                    run_ignored >>

\* A click on the start button: a disabled ttk.Button does not call its command.
ClickRun == UiReady /\ run_btn = "normal" /\ OnRunClicked

\* A click on the cancel button.
ClickCancel == UiReady /\ cancel_btn = "normal" /\ OnCancelClicked

\* The loop of _poll_log_queue: every line available, in the order taken.
\* Mutant of Drain: the newest waiting line is taken but never inserted.
Drain_LosesLast(text, q) == text \o SubSeq(q, 1, Len(q) - 1)

RECURSIVE Drain(_, _)
Drain(text, q) ==
    IF q = <<>> THEN text ELSE Drain(Append(text, QueueFront(q)), QueueRest(q))

\* YtDlGUI._poll_log_queue, one tick of the 100 ms timer (it also runs in the
\* event loop of a modal box).
PollLogQueue ==
    /\ log_text' = Drain(log_text, log_queue)
    /\ log_queue' = <<>>
    /\ UNCHANGED << fieldVars, is_downloading, worker_thread, btnVars, msgboxes,
                    enqueued, workerVars, envVars, inputs, run_ignored >>

\* The user closes the topmost message box; its caller continues.
Dismiss ==
    /\ msgboxes # <<>>
    /\ LET box == msgboxes[Len(msgboxes)] IN
       /\ msgboxes' = SubSeq(msgboxes, 1, Len(msgboxes) - 1)
       /\ pc' = IF box.owner = UiThread THEN pc ELSE [pc EXCEPT ![box.owner] = "f1"]
    /\ UNCHANGED << fieldVars, is_downloading, worker_thread, btnVars, logVars, args,
                    ydl_opts, info, err, progress, extract_calls, envVars, inputs,
                    run_ignored >>

\* -------------------------------------------------------- worker threads
\* What a step of thread w leaves alone besides the log and its own variables.
WorkerFrame == UNCHANGED << fieldVars, worker_thread, msgboxes, envVars, inputs,
                            run_ignored >>

\* Mutant of CallExtract: the format is read from the toggle when the thread
\* builds its options.
CallExtract_ReadsToggle(w) ==
    /\ pc[w] = "start"
    /\ ydl_opts' = [ydl_opts EXCEPT ![w] = YdlOpts(args[w].save_dir, as_mp3_var)]
    /\ extract_calls' = [extract_calls EXCEPT ![w] = @ + 1]
    /\ pc' = [pc EXCEPT ![w] = "fetching"]
    /\ WorkerFrame
    /\ UNCHANGED << is_downloading, btnVars, logVars, args, info, err, progress >>

\* _do_download up to the call of extract_info: the options are built from the
\* thread's arguments.
CallExtract(w) ==
    /\ pc[w] = "start"
    /\ ydl_opts' = [ydl_opts EXCEPT ![w] = YdlOpts(args[w].save_dir, args[w].as_mp3)]
    /\ extract_calls' = [extract_calls EXCEPT ![w] = @ + 1]
    /\ pc' = [pc EXCEPT ![w] = "fetching"]
    /\ WorkerFrame
    /\ UNCHANGED << is_downloading, btnVars, logVars, args, info, err, progress >>

\* hook(d), called by the tool: status "downloading" with a known total, or
\* status "finished" before post-processing.
Hook(w) ==
    /\ pc[w] = "fetching"
    /\ progress[w] < MaxProgress
    /\ progress' = [progress EXCEPT ![w] = @ + 1]
    /\ \E line \in {ProgressLine, StageLine} : Log(line)
    /\ WorkerFrame
    /\ UNCHANGED << is_downloading, btnVars, pc, args, ydl_opts, info, err,
                    extract_calls >>

\* extract_info returns the metadata.
ExtractReturn(w) ==
    /\ pc[w] = "fetching"
    /\ \E i \in Infos : info' = [info EXCEPT ![w] = i]
    /\ pc' = [pc EXCEPT ![w] = "report"]
    /\ WorkerFrame
    /\ UNCHANGED << is_downloading, btnVars, logVars, args, ydl_opts, err, progress,
                    extract_calls >>

\* Mutant of ExtractRaise: the exception is not caught and the thread dies
\* without running the cleanup.
ExtractRaise_Uncaught(w) ==
    /\ pc[w] = "fetching"
    /\ \E e \in Errors : err' = [err EXCEPT ![w] = e]
    /\ pc' = [pc EXCEPT ![w] = "done"]
    /\ WorkerFrame
    /\ UNCHANGED << is_downloading, btnVars, logVars, args, ydl_opts, info, progress,
                    extract_calls >>

\* Mutant of ExtractRaise: after a failure the thread calls the tool again.
ExtractRaise_Retry(w) ==
    /\ pc[w] = "fetching"
    /\ \E e \in Errors : err' = [err EXCEPT ![w] = e]
    /\ pc' = [pc EXCEPT ![w] = IF extract_calls[w] < 2 THEN "start" ELSE "except"]
    /\ WorkerFrame
    /\ UNCHANGED << is_downloading, btnVars, logVars, args, ydl_opts, info, progress,
                    extract_calls >>

\* extract_info raises.
ExtractRaise(w) ==
    /\ pc[w] = "fetching"
    /\ \E e \in Errors : err' = [err EXCEPT ![w] = e]
    /\ pc' = [pc EXCEPT ![w] = "except"]
    /\ WorkerFrame
    /\ UNCHANGED << is_downloading, btnVars, logVars, args, ydl_opts, info, progress,
                    extract_calls >>

\* After a successful fetch: the completion line, by whether saved_path exists
\* (os.startfile is then tried and its failure ignored).
Report(w) ==
    /\ pc[w] = "report"
    /\ \E exists \in BOOLEAN :
          Log(IF exists
              THEN DoneLine(SavedPath(args[w].save_dir, info[w], args[w].as_mp3))
              ELSE DoneOtherNameLine)
    /\ pc' = [pc EXCEPT ![w] = "f1"]
    /\ WorkerFrame
    /\ UNCHANGED << is_downloading, btnVars, args, ydl_opts, info, err, progress,
                    extract_calls >>

\* Mutant of LogError: the exception is shown in the box but not logged.
LogError_Silent(w) ==
    /\ pc[w] = "except"
    /\ pc' = [pc EXCEPT ![w] = "showerror"]
    /\ WorkerFrame
    /\ UNCHANGED << is_downloading, btnVars, logVars, args, ydl_opts, info, err,
                    progress, extract_calls >>

\* except Exception as e: the error line.
LogError(w) ==
    /\ pc[w] = "except"
    /\ Log(ErrorLine(err[w]))
    /\ pc' = [pc EXCEPT ![w] = "showerror"]
    /\ WorkerFrame
    /\ UNCHANGED << is_downloading, btnVars, args, ydl_opts, info, err, progress,
                    extract_calls >>

\* except Exception as e: messagebox.showerror, which blocks the thread.
ShowError(w) ==
    /\ pc[w] = "showerror"
    /\ ShowBox(w, "error", err[w])
    /\ pc' = [pc EXCEPT ![w] = "msgbox"]
    /\ UNCHANGED << fieldVars, is_downloading, worker_thread, btnVars, logVars, args,
                    ydl_opts, info, err, progress, extract_calls, envVars, inputs,
                    run_ignored >>

\* finally: self.is_downloading = False
FinallyFlag(w) ==
    /\ pc[w] = "f1"
    /\ is_downloading' = FALSE
    /\ pc' = [pc EXCEPT ![w] = "f2"]
    /\ WorkerFrame
    /\ UNCHANGED << btnVars, logVars, args, ydl_opts, info, err, progress,
                    extract_calls >>

\* finally: self.run_btn.config(state="normal")
FinallyRunBtn(w) ==
    /\ pc[w] = "f2"
    /\ run_btn' = "normal"
    /\ pc' = [pc EXCEPT ![w] = "f3"]
    /\ WorkerFrame
    /\ UNCHANGED << is_downloading, cancel_btn, logVars, args, ydl_opts, info, err,
                    progress, extract_calls >>

\* Mutant of FinallyCancelBtn: the cancel button is left as it is.
FinallyCancelBtn_Skipped(w) ==
    /\ pc[w] = "f3"
    /\ pc' = [pc EXCEPT ![w] = "f4"]
    /\ WorkerFrame
    /\ UNCHANGED << is_downloading, btnVars, logVars, args, ydl_opts, info, err,
                    progress, extract_calls >>

\* finally: self.cancel_btn.config(state="disabled")
FinallyCancelBtn(w) ==
    /\ pc[w] = "f3"
    /\ cancel_btn' = "disabled"
    /\ pc' = [pc EXCEPT ![w] = "f4"]
    /\ WorkerFrame
    /\ UNCHANGED << is_downloading, run_btn, logVars, args, ydl_opts, info, err,
                    progress, extract_calls >>

\* finally: the idle line; the thread ends.
FinallyLog(w) ==
    /\ pc[w] = "f4"
    /\ Log(IdleLine)
    /\ pc' = [pc EXCEPT ![w] = "done"]
    /\ WorkerFrame
    /\ UNCHANGED << is_downloading, btnVars, args, ydl_opts, info, err, progress,
                    extract_calls >>

\* A step of thread w that needs nothing from the user.
WorkerStep(w) ==
    \/ CallExtract(w)
    \/ Hook(w)
    \/ ExtractReturn(w)
    \/ ExtractRaise(w)
    \/ Report(w)
    \/ LogError(w)
    \/ ShowError(w)
    \/ FinallyFlag(w)
    \/ FinallyRunBtn(w)
    \/ FinallyCancelBtn(w)
    \/ FinallyLog(w)

\* --------------------------------------------------------- specifications
Next ==
    \/ EditUrl
    \/ EditDir
    \/ Toggle
    \/ ClickRun
    \/ ClickCancel
    \/ PollLogQueue
    \/ Dismiss
    \/ \E w \in Workers : WorkerStep(w)

\* The program as the user drives it, through the widgets.
Spec == Init /\ [][Next]_vars

\* _on_run_clicked called as a method, whatever the state of its button.
CallRun == UiReady /\ OnRunClicked

NextCall == Next \/ CallRun

\* The program with the start handler also called directly.
CallSpec == Init /\ [][NextCall]_vars

\* The worker threads are scheduled fairly and the external call returns or
\* raises; nothing is assumed about the user.
FairSpec == Spec /\ \A w \in Workers : WF_vars(WorkerStep(w))

\* The poll tick reschedules itself with after(100, ...) at the end of every
\* run, so a tick that has lines to take is eventually run.
PollFairSpec == Spec /\ WF_vars(PollLogQueue)

\* ------------------------------------------------------------ vocabulary
\* Thread w was started and has not finished the finally block.
Active(w) == pc[w] \notin {"unborn", "done"}
ActiveWorkers == { w \in Workers : Active(w) }
\* Thread w has reached its finally block.
InFinally(w) == pc[w] \in {"f1", "f2", "f3", "f4"}
\* The controls of an idle controller.
Idle == ~is_downloading /\ run_btn = "normal" /\ cancel_btn = "disabled"
\* The controls of a running job.
RunningControls == run_btn = "disabled" /\ cancel_btn = "normal"

\* The text is empty once surrounding blanks are removed.
Blank(s) == \A i \in 1..Len(s) : s[i] = " "
\* The text, less surrounding blanks, names an existing directory.
NamesDir(s) ==
    \E i, j \in 1..Len(s) :
        /\ i <= j
        /\ SubSeq(s, i, j) \in ExistingDirs
        /\ s[i] # " " /\ s[j] # " "
        /\ \A k \in 1..Len(s) : (k < i \/ k > j) => s[k] = " "
\* The entries pass the validation of a submission.
ValidFields == ~Blank(url_var) /\ NamesDir(save_dir_var)
\* The step opens one more message box, of this kind, from the UI thread.
UiBoxOpens(kind) ==
    /\ Len(msgboxes') = Len(msgboxes) + 1
    /\ SubSeq(msgboxes', 1, Len(msgboxes)) = msgboxes
    /\ msgboxes'[Len(msgboxes')].owner = UiThread
    /\ msgboxes'[Len(msgboxes')].kind = kind
\* The step starts no thread and moves none.
NoThreadStarts == worker_thread' = worker_thread /\ pc' = pc
\* The lines of a sequence, as a set.
Lines(q) == { q[i] : i \in 1..Len(q) }

\* Through the widgets the start handler never finds the flag set: the start
\* button is disabled whenever is_downloading is True.
RunningDisablesStart == is_downloading => run_btn = "disabled"

\* ---------------------------------------------------------------- claims
\* C1: in every reachable state at most one Fetch Worker is active (started
\* and not yet through the finally block of _do_download).
C1_AtMostOneWorker == Cardinality(ActiveWorkers) <= 1

\* C2: while is_downloading is True no step starts a worker thread, and a call
\* of _on_run_clicked that finds the flag set returns at once: the flag, both
\* buttons, the log queue and every thread are as before.
C2_ResubmitIsNoOp ==
    [][ is_downloading =>
          /\ worker_thread' = worker_thread
          /\ \A w \in Workers : pc[w] = "unborn" => pc'[w] = "unborn"
          /\ (run_ignored' # run_ignored =>
                /\ is_downloading'
                /\ UNCHANGED << btnVars, log_queue, log_text, msgboxes, workerVars >>)
      ]_vars

\* C2 witness: a submission was ignored while a job is running.
C2_Witness == run_ignored /\ is_downloading /\ ActiveWorkers # {}

\* C3 as claimed: after an accepted submission the controls return to idle,
\* given only fair worker threads and an external call that returns or raises.
C3_ReturnsToIdle == \A w \in Workers : (pc[w] = "start") ~> Idle

\* Thread w waits in messagebox.showerror for the user to close the box.
AwaitingDismiss(w) == pc[w] = "msgbox"

\* C3, amended: if moreover no error box stays open for ever, the controls
\* return to idle after every accepted submission, whatever the outcome.
C3_ReturnsToIdleIfDismissed ==
    (\A w \in Workers : []<>(~AwaitingDismiss(w)))
        => (\A w \in Workers : (pc[w] = "start") ~> Idle)

\* C3 witness: a job whose worker caught an exception has ended and the
\* controls are idle.
C3_Witness == \E w \in Workers : pc[w] = "done" /\ err[w] # <<>> /\ Idle

\* C4: a submission whose URL is blank, or whose folder is blank or does not
\* exist, opens a warning box, starts no thread, leaves the state IDLE and
\* both buttons as they were.
C4_InvalidInputRejected ==
    [][ (ClickRun /\ ~ValidFields) =>
          /\ UiBoxOpens("warning")
          /\ NoThreadStarts
          /\ ~is_downloading /\ ~is_downloading'
          /\ UNCHANGED btnVars
      ]_vars

\* C4 witness: the folder warning is open after a submission with a URL given.
C4_Witness ==
    /\ msgboxes # <<>>
    /\ msgboxes[Len(msgboxes)] = Box(UiThread, "warning", WarnDir)
    /\ ~Blank(url_var) /\ ~NamesDir(save_dir_var)
    /\ ~is_downloading /\ run_btn = "normal"

\* C5: a submission with valid entries made while yt-dlp or ffmpeg is missing
\* opens an error box, starts no thread and leaves the state IDLE, for MP3 and
\* for MP4 alike.
C5_MissingToolRejected ==
    [][ (ClickRun /\ ValidFields /\ (~have_yt_dlp \/ ~have_ffmpeg)) =>
          /\ UiBoxOpens("error")
          /\ NoThreadStarts
          /\ ~is_downloading /\ ~is_downloading'
          /\ UNCHANGED btnVars
      ]_vars

\* C5 witness: an MP4 submission was refused because ffmpeg is missing.
C5_Witness ==
    /\ msgboxes # <<>>
    /\ msgboxes[Len(msgboxes)] = Box(UiThread, "error", ErrFfmpeg)
    /\ ~as_mp3_var /\ ValidFields /\ ~have_ffmpeg
    /\ worker_thread = 0 /\ ~is_downloading

\* C6 as claimed, for the part of a job before its own cleanup: while the
\* worker of an accepted job has not reached its finally block the start
\* button is disabled and the cancel button is enabled.
C6_ControlsHeldWhileJobRuns ==
    \A w \in Workers : (Active(w) /\ ~InFinally(w)) => RunningControls

\* C7: the visible log followed by the queue is the sequence of lines in the
\* order they were enqueued: lines are rendered in the order of their put.
C7_RenderedInEnqueueOrder == log_text \o log_queue = enqueued

\* C7 witness: a worker's progress line and its completion line are rendered,
\* in that order, and a later line is still waiting for the next tick.
C7_Witness ==
    /\ log_queue # <<>>
    /\ \E i, j \in 1..Len(log_text) :
          /\ i < j
          /\ log_text[i].tag \in {"progress", "stage"}
          /\ log_text[j].tag \in {"done", "done-other-name", "error"}

\* C8: the request a thread was started with never changes, the options it
\* builds are those of that request whatever the toggle and the entries say by
\* then, and a request is taken from the entries at its own submission.
C8_RequestFixedAtSubmission ==
    [][ /\ \A w \in Workers : pc[w] # "unborn" =>
              /\ args'[w] = args[w]
              /\ pc'[w] \notin {"unborn", "start"} =>
                    /\ (ydl_opts'[w].format = <<"bestaudio/best">>) <=> args[w].as_mp3
                    /\ (ydl_opts'[w].post[1] = "FFmpegExtractAudio") <=> args[w].as_mp3
                    /\ SubSeq(ydl_opts'[w].outtmpl, 1, Len(args[w].save_dir))
                           = args[w].save_dir
        /\ \A w \in Workers : (pc[w] = "unborn" /\ pc'[w] # "unborn") =>
              args'[w] = [url |-> Strip(url_var), save_dir |-> Strip(save_dir_var),
                          as_mp3 |-> as_mp3_var]
      ]_vars

\* C8 witness: the toggle was changed while a job is in flight.
C8_Witness ==
    \E w \in Workers :
        /\ pc[w] \in {"fetching", "report"}
        /\ as_mp3_var # args[w].as_mp3

\* C9 as claimed: every error shown in a box is also on the log.
C9_EveryErrorLoggedAndShown ==
    \A i \in 1..Len(msgboxes) : \E line \in Lines(enqueued) : line.tag = "error"

\* C9, amended: an exception caught by a worker is put on the log and then
\* shown in a box; a rejected submission is shown in a box and adds no log line.
C9_ErrorsShownExtractionAlsoLogged ==
    [][ /\ \A w \in Workers :
              /\ pc'[w] \in {"showerror", "msgbox"} => ErrorLine(err'[w]) \in Lines(enqueued')
              /\ (pc[w] = "showerror" /\ pc'[w] # "showerror") =>
                    /\ pc'[w] = "msgbox"
                    /\ msgboxes' = Append(msgboxes, Box(w, "error", err[w]))
              /\ (pc[w] = "except" /\ pc'[w] # "except") => pc'[w] = "showerror"
        /\ (ClickRun /\ ~is_downloading /\ pc' = pc) =>
              /\ UiBoxOpens("warning") \/ UiBoxOpens("error")
              /\ UNCHANGED << log_queue, enqueued, log_text >>
      ]_vars

\* C9 witness: a worker's error box is open and its error line is on the log.
C9_Witness ==
    \E w \in Workers :
        /\ pc[w] = "msgbox"
        /\ Box(w, "error", err[w]) \in Lines(msgboxes)
        /\ ErrorLine(err[w]) \in Lines(enqueued)

\* C10: a cancel click sets is_downloading to False and enqueues the cancel
\* line; every thread's position, request and options and both buttons are
\* as before.
C10_CancelOnlySetsFlag ==
    [][ ClickCancel =>
          /\ is_downloading' = FALSE
          /\ log_queue' = Append(log_queue, CancelLine)
          /\ enqueued' = Append(enqueued, CancelLine)
          /\ UNCHANGED << btnVars, workerVars, worker_thread, msgboxes, log_text >>
      ]_vars

\* C10 witness: a worker logged its completion after the cancel request, and
\* ran to its exit.
C10_Witness ==
    \E i, j \in 1..Len(enqueued) :
        /\ i < j
        /\ enqueued[i] = CancelLine
        /\ enqueued[j].tag \in {"done", "done-other-name"}
        /\ \E w \in Workers : pc[w] = "done"

\* The path lies under the directory.
UnderDir(path, dir) ==
    /\ Len(path) > Len(dir) + 1
    /\ SubSeq(path, 1, Len(dir)) = dir
    /\ path[Len(dir) + 1] = "/"
\* The path ends in ".mp3" for an audio job and in ".mp4" for a video job.
HasExtension(path, as_mp3) ==
    /\ Len(path) >= 4
    /\ SubSeq(path, Len(path) - 3, Len(path)) =
           <<".", "m", "p", IF as_mp3 THEN "3" ELSE "4">>
\* extract_info returned to thread w, which has logged its completion.
Succeeded(w) == pc[w] \in {"f1", "f2", "f3", "f4", "done"} /\ err[w] = <<>>

\* C11 as claimed: once the fetch of a job has succeeded, the log has a
\* completion line naming a path under the job's directory with the extension
\* of the job's format.
C11_CompletionNamesPath ==
    \A w \in Workers : Succeeded(w) =>
        \E line \in Lines(enqueued) :
            /\ line.tag = "done"
            /\ UnderDir(line.arg, args[w].save_dir)
            /\ HasExtension(line.arg, args[w].as_mp3)

\* C11, amended: when the fetch succeeds the worker enqueues one completion
\* line; if the expected file exists the line names its path, under the job's
\* directory and with the extension of the job's format, and otherwise the
\* line names no path.
C11_CompletionLine ==
    [][ \A w \in Workers : (pc[w] = "report" /\ pc'[w] # "report") =>
          /\ pc'[w] = "f1"
          /\ Len(enqueued') = Len(enqueued) + 1
          /\ LET line == enqueued'[Len(enqueued')] IN
             /\ log_queue' = Append(log_queue, line)
             /\ \/ line = DoneOtherNameLine
                \/ /\ line.tag = "done"
                   /\ UnderDir(line.arg, args[w].save_dir)
                   /\ HasExtension(line.arg, args[w].as_mp3)
      ]_vars

\* C11 witness: a video job has logged a completion line naming an .mp4 path
\* under its directory.
C11_Witness ==
    \E w \in Workers :
        /\ Succeeded(w)
        /\ ~args[w].as_mp3
        /\ \E line \in Lines(enqueued) :
              /\ line.tag = "done"
              /\ UnderDir(line.arg, args[w].save_dir)
              /\ HasExtension(line.arg, FALSE)

\* Thread w caught an exception of the tool and is past logging it.
Failed(w) ==
    pc[w] \in {"showerror", "msgbox", "f1", "f2", "f3", "f4", "done"} /\ err[w] # <<>>

\* C12: a thread calls extract_info at most once (exactly once when it is past
\* the call), and a thread whose call raised has put the error text on the
\* log and goes on to its exit without calling again.
C12_NoRetry ==
    [][ \A w \in Workers :
          /\ extract_calls'[w] <= 1
          /\ pc'[w] \notin {"unborn", "start"} => extract_calls'[w] = 1
          /\ Failed(w)' => ErrorLine(err'[w]) \in Lines(enqueued')
          /\ Failed(w) => /\ Failed(w)'
                          /\ extract_calls'[w] = extract_calls[w]
      ]_vars

\* C12 witness: a thread whose call raised has ended, having called once and
\* logged the error.
C12_Witness ==
    \E w \in Workers :
        /\ pc[w] = "done" /\ err[w] # <<>>
        /\ extract_calls[w] = 1
        /\ ErrorLine(err[w]) \in Lines(enqueued)

\* The place in the put history of the start line of thread w (0 if none):
\* the w-th start line, threads being numbered in the order they are started.
StartIndex(w) ==
    LET starts == { i \in 1..Len(enqueued) : enqueued[i] = StartLine }
        at == { i \in starts : Cardinality({ k \in starts : k <= i }) = w }
    IN IF at = {} THEN 0 ELSE CHOOSE i \in at : TRUE
\* A cancel click was handled after thread w was started.
CancelledSince(w) ==
    /\ StartIndex(w) > 0
    /\ \E j \in 1..Len(enqueued) : j > StartIndex(w) /\ enqueued[j] = CancelLine

\* C13 as claimed: whenever is_downloading is False no thread is executing
\* _do_download.
C13_FlagTracksWorker == ~is_downloading => ActiveWorkers = {}

\* C13, amended: whenever is_downloading is False, every thread still
\* executing _do_download has either run the first statement of its finally
\* block or been the subject of a cancel click since it was started.
C13_FlagDropsAtCancelOrFinally ==
    ~is_downloading =>
        \A w \in ActiveWorkers : pc[w] \in {"f2", "f3", "f4"} \/ CancelledSince(w)

\* C13 witness: after a cancel click the flag is False while the thread is
\* still inside the call of the tool.
C13_Witness ==
    /\ ~is_downloading
    /\ \E w \in Workers : pc[w] = "fetching" /\ CancelledSince(w)

\* The visible log is an initial part of the put history: every line it holds
\* stands at the place of its own put, so no put is rendered twice.
RenderedOncePerPut ==
    /\ Len(log_text) <= Len(enqueued)
    /\ log_text = SubSeq(enqueued, 1, Len(log_text))

\* C14: while the poll tick keeps running, every line put on the queue, by a
\* thread or by a handler, is appended to the visible log exactly once: the
\* visible log never holds anything but the first puts, each once, and again
\* and again it holds all of them.
C14_EveryLineRenderedOnce ==
    /\ [] RenderedOncePerPut
    /\ []<>(log_text = enqueued)

\* C14 witness: a handler's cancel line and a thread's idle line have both
\* been rendered, and nothing is waiting.
C14_Witness ==
    /\ log_queue = <<>>
    /\ log_text = enqueued
    /\ CancelLine \in Lines(log_text)
    /\ IdleLine \in Lines(log_text)

\* No thread is executing _do_download and no handler or thread is waiting in
\* a message box.
Quiescent == ActiveWorkers = {} /\ msgboxes = <<>>

\* C15: in every quiescent state the controller is idle: is_downloading is
\* False, the start button is enabled and the cancel button is disabled.
C15_QuiescentIsIdle == Quiescent => Idle

\* C15 witness: a quiescent state after a job that was cancelled and a job
\* that ended in an error whose box has been closed.
C15_Witness ==
    /\ Quiescent
    /\ CancelLine \in Lines(enqueued)
    /\ \E w \in Workers : pc[w] = "done" /\ err[w] # <<>>

====
